---- MODULE Spec2Model ----
(***************************************************************************)
(* Model of bin/api-docs/update-api-docs.js (documentation token updater)  *)
(* and of the global-styles state provider.                                *)
(*                                                                         *)
(* Strings are sequences of symbols.  A symbol is either a separator       *)
(* ("/", "-", "|", ",", "{", "}", "*", "\n"), a literal of the source      *)
(* taken as a whole ("<!-- START TOKEN(", ") -->", ".md") or a word that   *)
(* contains no separator.  Paths are strings whose segments are separated  *)
(* by "/", exactly as Node's path module sees them on POSIX.               *)
(***************************************************************************)
EXTENDS Integers, Sequences, FiniteSets, TLC

\* ------------------------------------------------------------------ bounds
MaxChunks == 2
MaxInner == 4
MaxArgs == 2
MaxNameLen == 3
MaxCalls == 3

\* ------------------------------------------------------- string primitives
SeqsUpTo(S, n) == UNION { [1..k -> S] : k \in 0..n }

startsWith(s, p) ==
    /\ Len(p) <= Len(s)
    /\ SubSeq(s, 1, Len(p)) = p

endsWith(s, p) ==
    /\ Len(p) <= Len(s)
    /\ SubSeq(s, Len(s) - Len(p) + 1, Len(s)) = p

Drop(s, n) == SubSeq(s, n + 1, Len(s))

\* String.prototype.replace( /^p/, '' ) for a literal p.
replacePrefix(s, p) == IF startsWith(s, p) THEN Drop(s, Len(p)) ELSE s

\* String.prototype.replace( c, d ) for a one-symbol string c: only the
\* first occurrence is replaced.
replaceFirst(s, c, d) ==
    IF \E i \in 1..Len(s) : s[i] = c
    THEN LET i == CHOOSE j \in 1..Len(s) :
                    /\ s[j] = c
                    /\ \A h \in 1..(j - 1) : s[h] # c
         IN  SubSeq(s, 1, i - 1) \o <<d>> \o Drop(s, i)
    ELSE s

RECURSIVE split(_, _)
\* String.prototype.split( c ): always at least one (possibly empty) part.
split(s, c) ==
    IF \E i \in 1..Len(s) : s[i] = c
    THEN LET i == CHOOSE j \in 1..Len(s) :
                    /\ s[j] = c
                    /\ \A h \in 1..(j - 1) : s[h] # c
         IN  <<SubSeq(s, 1, i - 1)>> \o split(Drop(s, i), c)
    ELSE <<s>>

RECURSIVE joinWith(_, _)
\* Array.prototype.join( c ).
joinWith(parts, c) ==
    IF parts = <<>> THEN <<>>
    ELSE IF Len(parts) = 1 THEN parts[1]
    ELSE parts[1] \o <<c>> \o joinWith(Tail(parts), c)

RECURSIVE concatAll(_)
concatAll(parts) ==
    IF parts = <<>> THEN <<>> ELSE parts[1] \o concatAll(Tail(parts))

RECURSIVE unique(_)
\* Array.from( new Set( xs ) ): first occurrences, insertion order.
unique(xs) ==
    IF xs = <<>> THEN <<>>
    ELSE LET init == unique(SubSeq(xs, 1, Len(xs) - 1))
             last == xs[Len(xs)]
         IN  IF \E i \in 1..Len(init) : init[i] = last
             THEN init
             ELSE Append(init, last)

\* --------------------------------------------------- Node's path (POSIX)
sep == "/"

RECURSIVE normalizeSegs(_, _)
\* Segments of an absolute path with "", "." and ".." resolved.
normalizeSegs(segs, acc) ==
    IF segs = <<>> THEN acc
    ELSE LET h == segs[1]
         IN  IF h = <<>> \/ h = <<".">>
             THEN normalizeSegs(Tail(segs), acc)
             ELSE IF h = <<"..">>
             THEN normalizeSegs(Tail(segs),
                                IF acc = <<>> THEN acc
                                ELSE SubSeq(acc, 1, Len(acc) - 1))
             ELSE normalizeSegs(Tail(segs), Append(acc, h))

absSegs(p) == normalizeSegs(split(p, sep), <<>>)

fromSegs(segs) == <<sep>> \o joinWith(segs, sep)

\* path.resolve( dir, p ) for an absolute dir.
resolve(dir, p) ==
    IF startsWith(p, <<sep>>)
    THEN fromSegs(absSegs(p))
    ELSE fromSegs(absSegs(dir \o <<sep>> \o p))

RECURSIVE commonLen(_, _)
commonLen(a, b) ==
    IF a # <<>> /\ b # <<>> /\ a[1] = b[1]
    THEN 1 + commonLen(Tail(a), Tail(b))
    ELSE 0

\* path.relative( from, to ) for absolute from and to.
relative(from, to) ==
    LET f == absSegs(from)
        t == absSegs(to)
        c == commonLen(f, t)
        ups == [i \in 1..(Len(f) - c) |-> <<"..">>]
    IN  joinWith(ups \o Drop(t, c), sep)

\* path.dirname( p ) for an absolute, normalized p.
dirname(p) ==
    LET segs == absSegs(p)
    IN  IF segs = <<>> THEN <<sep>>
        ELSE fromSegs(SubSeq(segs, 1, Len(segs) - 1))

\* path.basename( p, ext ).
basename(p, ext) ==
    LET parts == split(p, sep)
        base == parts[Len(parts)]
    IN  IF endsWith(base, ext) /\ base # ext
        THEN SubSeq(base, 1, Len(base) - Len(ext))
        ELSE base

\* ------------------------------------------------------------- constants
ROOT_DIR == <<"/", "repo">>

PACKAGES_DIR == resolve(ROOT_DIR, <<"packages">>)

DATA_DOCS_DIR ==
    resolve(ROOT_DIR, <<"docs", "/", "designers-developers", "/",
                        "developers", "/", "data">>)

DEFAULT_PATH == <<"src", "/", "index.js">>

\* The literal parts of TOKEN_PATTERN.
StartLit == "<!-- START TOKEN("
EndLit == ") -->"

\* ------------------------------------------------- package / doc naming
\* Variant: no special case for the core-data package.
getPackageStoreNamePlain(packageName) ==
    <<"core">> \o <<"/">> \o packageName

getPackageStoreName(packageName) ==
    IF packageName # <<"core", "-", "data">>
    THEN <<"core">> \o <<"/">> \o packageName
    ELSE <<"core">>

getDataDocumentationFilePackage(file) ==
    LET packageName == replacePrefix(replacePrefix(file, <<"data", "-">>),
                                     <<"core", "-">>)
    IN  IF packageName = <<"core">>
        THEN packageName \o <<"-", "data">>
        ELSE packageName

getDataDocumentationFile(packageName) ==
    LET storeName == getPackageStoreName(packageName)
    IN  <<"data", "-">> \o replaceFirst(storeName, "/", "-") \o <<".md">>

getFilePackage(file) ==
    IF startsWith(file, PACKAGES_DIR)
    THEN split(relative(PACKAGES_DIR, file), sep)[1]
    ELSE getDataDocumentationFilePackage(basename(file, <<".md">>))

\* Variant: the packages are not made unique.
getPackagePatternNoSet(fileList) ==
    IF Len(fileList) = 0 THEN <<"*">>
    ELSE LET packages == [i \in 1..Len(fileList) |-> getFilePackage(fileList[i])]
         IN  IF Len(packages) = 1 THEN packages[1]
             ELSE <<"{">> \o joinWith(packages, ",") \o <<"}">>

getPackagePattern(fileList) ==
    IF Len(fileList) = 0 THEN <<"*">>
    ELSE LET packages == unique([i \in 1..Len(fileList) |-> getFilePackage(fileList[i])])
         IN  IF Len(packages) = 1 THEN packages[1]
             ELSE <<"{">> \o joinWith(packages, ",") \o <<"}">>

getDataDocumentationPattern(fileList) ==
    IF Len(fileList) = 0 THEN <<"*">>
    ELSE LET filePackages == unique([i \in 1..Len(fileList) |-> getFilePackage(fileList[i])])
             docFiles == [i \in 1..Len(filePackages) |->
                             getDataDocumentationFile(filePackages[i])]
         IN  IF Len(docFiles) = 1 THEN docFiles[1]
             ELSE <<"{">> \o joinWith(docFiles, ",") \o <<"}">>

\* ------------------------------------------------------- TOKEN_PATTERN
\* "." of a regular expression: any symbol but a line terminator.
Dot(c) == c # "\n"

AllDot(s, a, b) == \A x \in a..b : Dot(s[x])

\* The optional group (?:\|(.+?))? succeeds after a lazy prefix of k symbols
\* behind the start literal at i, with a lazy path of m symbols.
PathGroupAt(s, i, k, m) ==
    /\ m >= 1
    /\ i + k + 2 + m <= Len(s)
    /\ s[i + k + 1] = "|"
    /\ AllDot(s, i + k + 2, i + k + 1 + m)
    /\ s[i + k + 2 + m] = EndLit

HasPathGroup(s, i, k) == \E m \in 1..Len(s) : PathGroupAt(s, i, k, m)

NoPathGroup(s, i, k) ==
    /\ i + k + 1 <= Len(s)
    /\ s[i + k + 1] = EndLit

\* The lazy .+? may stop after k symbols.
PrefixAt(s, i, k) ==
    /\ k >= 1
    /\ i + k <= Len(s)
    /\ AllDot(s, i + 1, i + k)
    /\ (HasPathGroup(s, i, k) \/ NoPathGroup(s, i, k))

MatchesAt(s, i) ==
    /\ i <= Len(s)
    /\ s[i] = StartLit
    /\ \E k \in 1..Len(s) : PrefixAt(s, i, k)

\* The match of TOKEN_PATTERN at i: group 1, group 2 (undefined when the
\* optional group did not take part) and the index of the last symbol.
MatchAt(s, i) ==
    LET k == CHOOSE k \in 1..Len(s) :
                 /\ PrefixAt(s, i, k)
                 /\ \A h \in 1..(k - 1) : ~PrefixAt(s, i, h)
    IN  IF HasPathGroup(s, i, k)
        THEN LET m == CHOOSE m \in 1..Len(s) :
                          /\ PathGroupAt(s, i, k, m)
                          /\ \A h \in 1..(m - 1) : ~PathGroupAt(s, i, k, h)
             IN  [ token |-> SubSeq(s, i + 1, i + k + 1 + m),
                   hasPath |-> TRUE,
                   path |-> SubSeq(s, i + k + 2, i + k + 1 + m),
                   last |-> i + k + 2 + m ]
        ELSE [ token |-> SubSeq(s, i + 1, i + k),
               hasPath |-> FALSE,
               path |-> <<>>,
               last |-> i + k + 1 ]

RECURSIVE matchAll(_, _)
\* content.matchAll( TOKEN_PATTERN ) from index pos on, in textual order.
matchAll(s, pos) ==
    IF \E i \in pos..Len(s) : MatchesAt(s, i)
    THEN LET i == CHOOSE j \in pos..Len(s) :
                      /\ MatchesAt(s, j)
                      /\ \A h \in pos..(j - 1) : ~MatchesAt(s, h)
             mt == MatchAt(s, i)
         IN  <<mt>> \o matchAll(s, mt.last + 1)
    ELSE <<>>

\* Variant: tokens.unshift( [ token, path ] ) in place of push.
TokensOfReversed(content) ==
    LET ms == matchAll(content, 1)
        n == Len(ms)
    IN  [ i \in 1..n |->
            << ms[n + 1 - i].token,
               IF ms[n + 1 - i].hasPath THEN ms[n + 1 - i].path
               ELSE DEFAULT_PATH >> ]

\* const [ , token, path = DEFAULT_PATH ] = match; tokens.push( [ token, path ] )
TokensOf(content) ==
    LET ms == matchAll(content, 1)
    IN  [ i \in 1..Len(ms) |->
            << ms[i].token,
               IF ms[i].hasPath THEN ms[i].path ELSE DEFAULT_PATH >> ]

\* Variant: the token path resolved against the project root.
ExecaArgsFromRoot(file, tok) ==
    [ source |-> relative(ROOT_DIR, resolve(ROOT_DIR, tok[2])),
      output |-> relative(ROOT_DIR, file),
      useToken |-> tok[1] ]

\* The argument list handed to execa for one token of one file.
ExecaArgs(file, tok) ==
    [ source |-> relative(ROOT_DIR, resolve(dirname(file), tok[2])),
      output |-> relative(ROOT_DIR, file),
      useToken |-> tok[1] ]

\* ------------------------------------------------------------------ state
VARIABLES
    doc,          \* file system: the chunks each doc file is made of
    unreadable,   \* file system: the doc files readFile rejects for
    pending,      \* files glob.stream has matched and not yet handed over
    reading,      \* the file filterTokenTransform is reading, or NoFile
    scanned,      \* files whose transform callback has been called, in order
    readable,     \* [ file, tokens ] items pushed and not yet emitted as 'data'
    tokens,       \* per file: the tokens its 'data' handler iterates over
    calls,        \* per file: the execa argument lists started so far
    exits,        \* per file: how its generator processes have ended, in order
    hstate,       \* per file: state of the promise of its 'data' handler
    files,        \* process.argv.slice( 2 )
    packagePattern,
    docPattern,
    matched,      \* the files glob.stream yields for the two patterns
    gpc,          \* position of the script before the pipeline starts
    nameInput,    \* argument of a naming function
    nameOutput,   \* its result
    npc,
    state,        \* React state cell of useGlobalStylesDataState
    closure,      \* the `state` the setState closure in use was created with
    expected,     \* history: last value passed for each style key
    ncalls        \* number of setStyles calls made

pipeVars == <<doc, unreadable, pending, reading, scanned, readable, tokens,
              calls, exits, hstate>>
patVars == <<files, packagePattern, docPattern, matched, gpc>>
nameVars == <<nameInput, nameOutput, npc>>
styleVars == <<state, closure, expected, ncalls>>
vars == <<pipeVars, patVars, nameVars, styleVars>>

NoFile == <<>>

\* ------------------------------------------------------------ file system
ReadmeOf(package) ==
    PACKAGES_DIR \o <<sep>> \o package \o <<sep, "README.md">>

DataDocOf(name) == DATA_DOCS_DIR \o <<sep>> \o name

Foo == <<"foo">>
Bar == <<"bar">>
CoreData == <<"core", "-", "data">>

\* The doc files of the pipeline runs.
DocFiles ==
    { ReadmeOf(Foo), DataDocOf(<<"data", "-", "core", "-", "foo", ".md">>) }

TextChunk == [ marker |-> FALSE, inner |-> <<"text">> ]
Marker(inner) == [ marker |-> TRUE, inner |-> inner ]

Chunks ==
    { TextChunk,
      Marker(<<"Actions">>),
      Marker(<<"Selectors", "|", "lib", "/", "selectors.js">>) }

InnerSymbols == { "A", "|", "/", "x.js", ".." }

Inners == SeqsUpTo(InnerSymbols, MaxInner) \ { <<>> }

\* The text of a doc file as readFile( file, 'utf8' ) returns it.
RenderChunk(c) ==
    IF c.marker THEN <<StartLit>> \o c.inner \o <<EndLit>> ELSE c.inner

Render(chunks) == concatAll([i \in 1..Len(chunks) |-> RenderChunk(chunks[i])])

\* Every text readFile can return in the runs considered.
Contents ==
    { Render(cs) : cs \in SeqsUpTo(Chunks, MaxChunks) }
        \cup { Render(<<Marker(inner)>>) : inner \in Inners }

\* TokensOf and ExecaArgs tabulated over the texts and files of the runs, so
\* that each value is computed once.
TokenTable == [content \in Contents |-> TokensOf(content)]

TokenPairs ==
    UNION { { TokenTable[c][i] : i \in 1..Len(TokenTable[c]) } : c \in Contents }

ArgsTable == [file \in DocFiles, tok \in TokenPairs |-> ExecaArgs(file, tok)]

\* Generator processes of file f started and not yet ended.
Inflight(f) == Len(calls[f]) - Len(exits[f])

\* ------------------------------------------------ idle parts of the state
PipeIdle ==
    /\ doc = [f \in DocFiles |-> <<>>]
    /\ unreadable = {}
    /\ pending = {}
    /\ reading = NoFile
    /\ scanned = <<>>
    /\ readable = <<>>
    /\ tokens = [f \in DocFiles |-> <<>>]
    /\ calls = [f \in DocFiles |-> <<>>]
    /\ exits = [f \in DocFiles |-> <<>>]
    /\ hstate = [f \in DocFiles |-> "none"]

PatIdle ==
    /\ files = <<>>
    /\ packagePattern = <<>>
    /\ docPattern = <<>>
    /\ matched = {}
    /\ gpc = "off"

NameIdle ==
    /\ nameInput = [ kind |-> "none", value |-> <<>> ]
    /\ nameOutput = <<>>
    /\ npc = "off"

\* ------------------------------------------------------------- pipeline
\* glob.stream( ... ).pipe( filterTokenTransform ): the transform takes the
\* next matched file (in whatever order the glob yields them) and starts
\* reading it.
TransformRead(f) ==
    /\ reading = NoFile
    /\ f \in pending
    /\ reading' = f
    /\ pending' = pending \ {f}
    /\ UNCHANGED <<doc, unreadable, scanned, readable, tokens, calls,
                   exits, hstate>>
    /\ UNCHANGED <<patVars, nameVars, styleVars>>

\* Variant: no try/catch around readFile, so that a failed read leaves
\* transform() before callback().
TransformDoneThrows ==
    /\ reading # NoFile
    /\ reading \notin unreadable
    /\ LET file == reading
           content == Render(doc[file])
           toks == IF content # <<>> THEN TokenTable[content] ELSE <<>>
       IN  readable' = IF Len(toks) > 0
                       THEN Append(readable, <<file, toks>>)
                       ELSE readable
    /\ scanned' = Append(scanned, reading)
    /\ reading' = NoFile
    /\ UNCHANGED <<doc, unreadable, pending, tokens, calls, exits, hstate>>
    /\ UNCHANGED <<patVars, nameVars, styleVars>>

\* Variant: every file that could be read is pushed, with or without tokens.
TransformDonePushAll ==
    /\ reading # NoFile
    /\ LET file == reading
           content == IF file \in unreadable THEN <<>> ELSE Render(doc[file])
           toks == IF content # <<>> THEN TokenTable[content] ELSE <<>>
       IN  readable' = IF content # <<>>
                       THEN Append(readable, <<file, toks>>)
                       ELSE readable
    /\ scanned' = Append(scanned, reading)
    /\ reading' = NoFile
    /\ UNCHANGED <<doc, unreadable, pending, tokens, calls, exits, hstate>>
    /\ UNCHANGED <<patVars, nameVars, styleVars>>

\* readFile settles; the rest of transform() runs up to callback().
TransformDone ==
    /\ reading # NoFile
    /\ LET file == reading
           content == IF file \in unreadable THEN <<>> ELSE Render(doc[file])
           toks == IF content # <<>> THEN TokenTable[content] ELSE <<>>
       IN  readable' = IF Len(toks) > 0
                       THEN Append(readable, <<file, toks>>)
                       ELSE readable
    /\ scanned' = Append(scanned, reading)
    /\ reading' = NoFile
    /\ UNCHANGED <<doc, unreadable, pending, tokens, calls, exits, hstate>>
    /\ UNCHANGED <<patVars, nameVars, styleVars>>

\* Variant: the loop does not await, every token's process is started at once.
OnDataParallel ==
    /\ readable # <<>>
    /\ LET file == readable[1][1]
           toks == readable[1][2]
       IN  /\ tokens' = [tokens EXCEPT ![file] = toks]
           /\ calls' = [calls EXCEPT
                          ![file] = [i \in 1..Len(toks) |->
                                        ArgsTable[file, toks[i]]]]
           /\ hstate' = [hstate EXCEPT
                           ![file] = IF Len(toks) > 0 THEN "awaiting"
                                     ELSE "resolved"]
    /\ readable' = Tail(readable)
    /\ UNCHANGED <<doc, unreadable, pending, reading, scanned, exits>>
    /\ UNCHANGED <<patVars, nameVars, styleVars>>

\* Variant: a handler starts only when no generator process is running.
OnDataSerial ==
    /\ readable # <<>>
    /\ \A g \in DocFiles : Len(calls[g]) = Len(exits[g])
    /\ LET file == readable[1][1]
           toks == readable[1][2]
       IN  /\ tokens' = [tokens EXCEPT ![file] = toks]
           /\ IF Len(toks) > 0
              THEN /\ calls' = [calls EXCEPT
                                  ![file] = Append(@, ArgsTable[file, toks[1]])]
                   /\ hstate' = [hstate EXCEPT ![file] = "awaiting"]
              ELSE /\ calls' = calls
                   /\ hstate' = [hstate EXCEPT ![file] = "resolved"]
    /\ readable' = Tail(readable)
    /\ UNCHANGED <<doc, unreadable, pending, reading, scanned, exits>>
    /\ UNCHANGED <<patVars, nameVars, styleVars>>

\* .on( 'data', async ( data ) => ... ) up to its first await.
OnData ==
    /\ readable # <<>>
    /\ LET file == readable[1][1]
           toks == readable[1][2]
       IN  /\ tokens' = [tokens EXCEPT ![file] = toks]
           /\ IF Len(toks) > 0
              THEN /\ calls' = [calls EXCEPT
                                  ![file] = Append(@, ArgsTable[file, toks[1]])]
                   /\ hstate' = [hstate EXCEPT ![file] = "awaiting"]
              ELSE /\ calls' = calls
                   /\ hstate' = [hstate EXCEPT ![file] = "resolved"]
    /\ readable' = Tail(readable)
    /\ UNCHANGED <<doc, unreadable, pending, reading, scanned, exits>>
    /\ UNCHANGED <<patVars, nameVars, styleVars>>

\* The generator process of file f exits with success: the await returns and
\* the loop goes on to the next token, or the handler returns.
ExecaResolve(f) ==
    /\ hstate[f] = "awaiting"
    /\ Len(exits[f]) < Len(calls[f])
    /\ exits' = [exits EXCEPT ![f] = Append(@, "ok")]
    /\ LET i == Len(calls[f])
       IN  IF i < Len(tokens[f])
           THEN /\ calls' = [calls EXCEPT
                               ![f] = Append(@, ArgsTable[f, tokens[f][i + 1]])]
                /\ hstate' = hstate
           ELSE /\ calls' = calls
                /\ hstate' = [hstate EXCEPT ![f] = "resolved"]
    /\ UNCHANGED <<doc, unreadable, pending, reading, scanned, readable,
                   tokens>>
    /\ UNCHANGED <<patVars, nameVars, styleVars>>

\* Variant: the failure is caught and the loop goes on.
ExecaRejectCaught(f) ==
    /\ hstate[f] = "awaiting"
    /\ Len(exits[f]) < Len(calls[f])
    /\ exits' = [exits EXCEPT ![f] = Append(@, "failed")]
    /\ LET i == Len(calls[f])
       IN  IF i < Len(tokens[f])
           THEN /\ calls' = [calls EXCEPT
                               ![f] = Append(@, ArgsTable[f, tokens[f][i + 1]])]
                /\ hstate' = hstate
           ELSE /\ calls' = calls
                /\ hstate' = [hstate EXCEPT ![f] = "resolved"]
    /\ UNCHANGED <<doc, unreadable, pending, reading, scanned, readable,
                   tokens>>
    /\ UNCHANGED <<patVars, nameVars, styleVars>>

\* The generator process of file f fails: the await throws, nothing catches
\* it and the promise of the handler is rejected.
ExecaReject(f) ==
    /\ hstate[f] = "awaiting"
    /\ Len(exits[f]) < Len(calls[f])
    /\ exits' = [exits EXCEPT ![f] = Append(@, "failed")]
    /\ hstate' = [hstate EXCEPT ![f] = "rejected"]
    /\ UNCHANGED <<doc, unreadable, pending, reading, scanned, readable,
                   tokens, calls>>
    /\ UNCHANGED <<patVars, nameVars, styleVars>>

PipeInit ==
    /\ unreadable \in SUBSET DocFiles
    /\ doc \in [DocFiles -> SeqsUpTo(Chunks, MaxChunks)]
    /\ \A f \in unreadable : doc[f] = <<>>
    /\ pending = DocFiles
    /\ reading = NoFile
    /\ scanned = <<>>
    /\ readable = <<>>
    /\ tokens = [f \in DocFiles |-> <<>>]
    /\ calls = [f \in DocFiles |-> <<>>]
    /\ exits = [f \in DocFiles |-> <<>>]
    /\ hstate = [f \in DocFiles |-> "none"]

\* A README made of a single marker of any form, next to a data doc file
\* whose marker names its source path.
MarkerInit ==
    /\ unreadable = {}
    /\ \E inner \in Inners :
          doc = [f \in DocFiles |->
                   IF f = ReadmeOf(Foo)
                   THEN <<Marker(inner)>>
                   ELSE <<Marker(<<"Selectors", "|", "lib", "/", "selectors.js">>)>>]
    /\ pending = DocFiles
    /\ reading = NoFile
    /\ scanned = <<>>
    /\ readable = <<>>
    /\ tokens = [f \in DocFiles |-> <<>>]
    /\ calls = [f \in DocFiles |-> <<>>]
    /\ exits = [f \in DocFiles |-> <<>>]
    /\ hstate = [f \in DocFiles |-> "none"]

PipeNext ==
    \/ \E f \in DocFiles : TransformRead(f)
    \/ TransformDone
    \/ OnData
    \/ \E f \in DocFiles : ExecaResolve(f)
    \/ \E f \in DocFiles : ExecaReject(f)

\* ------------------------------------------------- patterns and the glob
\* Files given on the command line.
ArgFiles ==
    { PACKAGES_DIR \o <<sep>> \o Foo \o <<sep, "src", sep, "index.js">>,
      ReadmeOf(Foo),
      PACKAGES_DIR \o <<sep>> \o Bar \o <<sep, "src", sep, "index.js">>,
      PACKAGES_DIR \o <<sep>> \o CoreData \o <<sep, "src", sep, "index.js">>,
      DataDocOf(<<"data", "-", "core", "-", "foo", ".md">>),
      DataDocOf(<<"data", "-", "core", ".md">>) }

\* Files present in the working tree.
FsFiles ==
    { ReadmeOf(Foo), ReadmeOf(Bar), ReadmeOf(CoreData),
      PACKAGES_DIR \o <<sep>> \o Foo \o <<sep, "CHANGELOG.md">>,
      DataDocOf(<<"data", "-", "core", "-", "foo", ".md">>),
      DataDocOf(<<"data", "-", "core", "-", "bar", ".md">>),
      DataDocOf(<<"data", "-", "core", ".md">>),
      DataDocOf(<<"README.md">>) }

\* The two patterns handed to glob.stream.
GlobPatterns(pp, dp) ==
    << PACKAGES_DIR \o <<sep>> \o pp \o <<sep, "README.md">>,
       DATA_DOCS_DIR \o <<sep>> \o dp >>

\* One path segment against one pattern segment: "*", a brace list of at
\* least two alternatives, or a literal.
SegmentMatches(pseg, seg) ==
    IF pseg = <<"*">> THEN seg # <<>>
    ELSE IF /\ Len(pseg) >= 2
            /\ pseg[1] = "{"
            /\ pseg[Len(pseg)] = "}"
            /\ \E i \in 1..Len(pseg) : pseg[i] = ","
    THEN LET alts == split(SubSeq(pseg, 2, Len(pseg) - 1), ",")
         IN  \E i \in 1..Len(alts) : alts[i] = seg
    ELSE pseg = seg

GlobMatches(pattern, path) ==
    LET ps == split(pattern, sep)
        xs == split(path, sep)
    IN  /\ Len(ps) = Len(xs)
        /\ \A i \in 1..Len(ps) : SegmentMatches(ps[i], xs[i])

ComputePatterns ==
    /\ gpc = "args"
    /\ packagePattern' = getPackagePattern(files)
    /\ docPattern' = getDataDocumentationPattern(files)
    /\ gpc' = "patterns"
    /\ UNCHANGED <<files, matched>>
    /\ UNCHANGED <<pipeVars, nameVars, styleVars>>

GlobStream ==
    /\ gpc = "patterns"
    /\ LET pats == GlobPatterns(packagePattern, docPattern)
       IN  matched' = { f \in FsFiles :
                          \E i \in 1..Len(pats) : GlobMatches(pats[i], f) }
    /\ gpc' = "globbed"
    /\ UNCHANGED <<files, packagePattern, docPattern>>
    /\ UNCHANGED <<pipeVars, nameVars, styleVars>>

PatInit ==
    /\ files \in SeqsUpTo(ArgFiles, MaxArgs)
    /\ packagePattern = <<>>
    /\ docPattern = <<>>
    /\ matched = {}
    /\ gpc = "args"

PatNext ==
    \/ ComputePatterns
    \/ GlobStream

\* --------------------------------------------------------- naming rules
NameSymbols == { "core", "data", "foo", "-" }

PackageNames == SeqsUpTo(NameSymbols, MaxNameLen) \ { <<>> }

\* Doc file names of the data documentation directory.
DocNames ==
    { <<"data", "-", "core", "-">> \o p \o <<".md">> : p \in PackageNames }
        \cup { <<"data", "-", "core", ".md">> }

DeriveDocFile ==
    /\ npc = "input"
    /\ nameInput.kind = "package"
    /\ nameOutput' = getDataDocumentationFile(nameInput.value)
    /\ npc' = "done"
    /\ UNCHANGED nameInput
    /\ UNCHANGED <<pipeVars, patVars, styleVars>>

DerivePackage ==
    /\ npc = "input"
    /\ nameInput.kind = "doc"
    /\ nameOutput' =
          getDataDocumentationFilePackage(basename(nameInput.value, <<".md">>))
    /\ npc' = "done"
    /\ UNCHANGED nameInput
    /\ UNCHANGED <<pipeVars, patVars, styleVars>>

NameInit ==
    /\ nameInput \in
          { [ kind |-> "package", value |-> p ] : p \in PackageNames }
            \cup { [ kind |-> "doc", value |-> d ] : d \in DocNames }
    /\ nameOutput = <<>>
    /\ npc = "input"

NameNext ==
    \/ DeriveDocFile
    \/ DerivePackage

\* ------------------------------------------------- global styles provider
initialState ==
    [ colorBackground |-> "#ffffff",
      colorPrimary |-> "#0000ff",
      colorText |-> "#000000",
      fontScale |-> "1.2",
      fontSize |-> 16,
      fontSizeQuote |-> 24,
      fontWeight |-> 400,
      fontWeightHeading |-> 600,
      lineHeight |-> "1.5" ]

StyleKeys == DOMAIN initialState

\* Values a caller may pass for a key.
NewValues(k) ==
    IF k \in { "colorBackground", "colorPrimary", "colorText" }
    THEN { "#111111" }
    ELSE IF k \in { "fontScale", "lineHeight" }
    THEN { "1.4" }
    ELSE { initialState[k] + 2 }

\* Arguments of setStyles: nothing, or an object with one key.
Partials ==
    { <<>> } \cup UNION { { <<k, v>> : v \in NewValues(k) } : k \in StyleKeys }

\* { ...base, ...nextState }
Merged(base, nextState) ==
    IF nextState = <<>> THEN base
    ELSE [base EXCEPT ![nextState[1]] = nextState[2]]

\* setState( nextState ) of useGlobalStylesDataState, as returned to the
\* consumers under the name setStyles.
SetStyles(nextState) ==
    /\ ncalls < MaxCalls
    /\ state' = Merged(closure, nextState)
    /\ expected' = Merged(expected, nextState)
    /\ ncalls' = ncalls + 1
    /\ UNCHANGED closure
    /\ UNCHANGED <<pipeVars, patVars, nameVars>>

\* The provider renders again: a new setState closure over the current state.
Rerender ==
    /\ closure # state
    /\ closure' = state
    /\ UNCHANGED <<state, expected, ncalls>>
    /\ UNCHANGED <<pipeVars, patVars, nameVars>>

StyleIdle ==
    /\ state = initialState
    /\ closure = initialState
    /\ expected = initialState
    /\ ncalls = 0

StyleInit ==
    /\ state = initialState
    /\ closure = initialState
    /\ expected = initialState
    /\ ncalls = 0

StyleNext ==
    \/ \E p \in Partials : SetStyles(p)
    \/ Rerender

\* --------------------------------------------------------- specifications
Init == PipeInit /\ PatIdle /\ NameIdle /\ StyleIdle
Next == PipeNext
Spec == Init /\ [][Next]_vars

\* The event loop runs every callback that is ready and every file read
\* settles; generator processes need not terminate.
FairSpec ==
    /\ Spec
    /\ \A f \in DocFiles : WF_vars(TransformRead(f))
    /\ WF_vars(TransformDone)
    /\ WF_vars(OnData)

InitMarker == MarkerInit /\ PatIdle /\ NameIdle /\ StyleIdle
MarkerSpec == InitMarker /\ [][Next]_vars

InitPattern == PatInit /\ PipeIdle /\ NameIdle /\ StyleIdle
PatternSpec == InitPattern /\ [][PatNext]_vars

InitName == NameInit /\ PipeIdle /\ PatIdle /\ StyleIdle
NameSpec == InitName /\ [][NameNext]_vars

InitStyle == StyleInit /\ PipeIdle /\ PatIdle /\ NameIdle
StyleSpec == InitStyle /\ [][StyleNext]_vars

\* ------------------------------------------------ properties: the pipeline
RECURSIVE MarkerInners(_)
\* The marker texts of a doc file, in the order they stand in the file.
MarkerInners(chunks) ==
    IF chunks = <<>> THEN <<>>
    ELSE IF chunks[1].marker
    THEN <<chunks[1].inner>> \o MarkerInners(Tail(chunks))
    ELSE MarkerInners(Tail(chunks))

HasMarker(f) ==
    /\ f \notin unreadable
    /\ \E i \in 1..Len(doc[f]) : doc[f][i].marker

Failed(f) == \E i \in 1..Len(exits[f]) : exits[f][i] = "failed"

\* C1: the generator invocations of a doc file are started one by one in the
\* textual order of its tokens, and an invocation is started only when every
\* earlier invocation of that file has ended.
C1_TokensInTextualOrder ==
    [][ \A f \in DocFiles :
          Len(calls'[f]) > Len(calls[f]) =>
             LET n == Len(calls[f]) + 1
             IN  /\ Len(calls'[f]) = n
                 /\ SubSeq(calls'[f], 1, n - 1) = calls[f]
                 /\ n <= Len(MarkerInners(doc[f]))
                 /\ calls'[f][n].useToken = MarkerInners(doc[f])[n]
                 /\ Len(exits'[f]) = n - 1 ]_vars

C1_Witness ==
    \E f \in DocFiles :
       /\ Len(calls[f]) = 2
       /\ calls[f][1].useToken = <<"Actions">>
       /\ calls[f][2].useToken = <<"Selectors", "|", "lib", "/", "selectors.js">>

\* C2: at most one generator process is in flight for a doc file, and two
\* invocations with the same --output belong to the same doc file.
C2_OneProcessPerFile ==
    /\ \A f \in DocFiles : Inflight(f) \in {0, 1}
    /\ \A f, g \in DocFiles :
          \A i \in 1..Len(calls[f]) : \A j \in 1..Len(calls[g]) :
             calls[f][i].output = calls[g][j].output => f = g

C2_Witness ==
    \E f \in DocFiles :
       /\ Len(calls[f]) = 2
       /\ Inflight(f) = 1
       /\ \E g \in DocFiles \ {f} : Inflight(g) = 1

\* C3: once a generator invocation of a doc file has failed, no further
\* invocation is started for that file (none for a later token, none again
\* for the failed one) and the handler's promise stays rejected.
C3_NoInvocationAfterFailure ==
    [][ \A f \in DocFiles :
          Failed(f) => /\ calls'[f] = calls[f]
                       /\ exits'[f] = exits[f]
                       /\ hstate[f] = "rejected"
                       /\ hstate'[f] = "rejected" ]_vars

C3_Witness ==
    \E f \in DocFiles :
       /\ Failed(f)
       /\ Len(calls[f]) < Len(tokens[f])
       /\ \E g \in DocFiles \ {f} : Len(calls[g]) > 0

IndexIn(seq, x) == CHOOSE i \in 1..Len(seq) : seq[i] = x

IsScanned(f) == \E i \in 1..Len(scanned) : scanned[i] = f

\* C4: reading an unreadable candidate pushes nothing, starts nothing and
\* rejects nothing, and the transform signals completion for it; every
\* candidate file is eventually scanned and every file with a marker has its
\* generator invoked.
C4_UnreadableFileSkipped ==
    /\ [][ \A f \in unreadable :
             (reading = f /\ reading' # f) =>
                /\ reading' = NoFile
                /\ scanned' = Append(scanned, f)
                /\ readable' = readable
                /\ calls' = calls
                /\ hstate' = hstate ]_vars
    /\ \A f \in DocFiles : <>IsScanned(f)
    /\ \A f \in DocFiles : HasMarker(f) ~> (Len(calls[f]) > 0)
    /\ [](\A f \in unreadable : calls[f] = <<>> /\ hstate[f] = "none")

C4_Witness ==
    \E f \in unreadable : \E g \in DocFiles :
       /\ IsScanned(f)
       /\ IsScanned(g)
       /\ IndexIn(scanned, f) < IndexIn(scanned, g)
       /\ Len(calls[g]) > 0

\* C5: a file without a marker is never emitted downstream and never the
\* output of a generator invocation; every invocation targets a readable
\* file that holds at least one marker.
C5_NoMarkerNoInvocation ==
    /\ \A f \in DocFiles :
          ~HasMarker(f) =>
             /\ calls[f] = <<>>
             /\ hstate[f] = "none"
             /\ \A i \in 1..Len(readable) : readable[i][1] # f
    /\ \A f \in DocFiles :
          \A i \in 1..Len(calls[f]) :
             \E g \in DocFiles :
                /\ HasMarker(g)
                /\ calls[f][i].output = relative(ROOT_DIR, g)

C5_Witness ==
    \E f \in DocFiles : \E g \in DocFiles :
       /\ f \notin unreadable
       /\ doc[f] = <<TextChunk>>
       /\ IsScanned(f)
       /\ pending = {}
       /\ reading = NoFile
       /\ hstate[g] = "resolved"

\* C9: the handlers of different doc files do not wait for each other: a
\* pushed item can always be handed to its handler, whatever generator
\* processes are running, and the transform can always take the next file.
C9_FilesIndependent ==
    /\ readable # <<>> => ENABLED OnData
    /\ \A f \in pending : reading = NoFile => ENABLED TransformRead(f)
    /\ reading # NoFile => ENABLED TransformDone

C9_Witness ==
    \E f, g \in DocFiles :
       /\ f # g
       /\ Inflight(f) = 1
       /\ Inflight(g) = 1

\* Index of the first "|" of a marker text, 0 when there is none.
FirstBar(inner) ==
    IF \E i \in 1..Len(inner) : inner[i] = "|"
    THEN CHOOSE i \in 1..Len(inner) :
            /\ inner[i] = "|"
            /\ \A h \in 1..(i - 1) : inner[h] # "|"
    ELSE 0

\* C8: a marker without a "|path" part gets the source path src/index.js and
\* its generator runs on src/index.js in the doc file's directory; a marker
\* name|path gets the given path, resolved against the doc file's directory.
C8_DefaultSourcePath ==
    \A f \in DocFiles :
       (tokens[f] # <<>> /\ Len(doc[f]) = 1 /\ doc[f][1].marker) =>
          LET inner == doc[f][1].inner
              j == FirstBar(inner)
              given == Drop(inner, j)
              dir == IF f = ReadmeOf(Foo)
                     THEN <<"packages", "/", "foo">>
                     ELSE <<"docs", "/", "designers-developers", "/",
                            "developers", "/", "data">>
          IN  /\ j = 0 =>
                   /\ tokens[f] = << <<inner, <<"src", "/", "index.js">>>> >>
                   /\ calls[f][1].source = dir \o <<"/", "src", "/", "index.js">>
              /\ (j > 1 /\ j < Len(inner)) =>
                   /\ tokens[f][1][2] = given
                   /\ calls[f][1].source =
                         relative(ROOT_DIR, resolve(dirname(f), given))
                   /\ given = <<"x.js">> =>
                         calls[f][1].source = dir \o <<"/", "x.js">>
                   /\ given = <<"lib", "/", "selectors.js">> =>
                         calls[f][1].source = dir \o <<"/", "lib", "/", "selectors.js">>

C8_Witness ==
    /\ doc[ReadmeOf(Foo)] = <<Marker(<<"A">>)>>
    /\ Len(calls[ReadmeOf(Foo)]) = 1
    /\ calls[ReadmeOf(Foo)][1].source =
          <<"packages", "/", "foo", "/", "src", "/", "index.js">>
    /\ \E g \in DocFiles \ { ReadmeOf(Foo) } :
          /\ Len(calls[g]) = 1
          /\ calls[g][1].source =
                <<"docs", "/", "designers-developers", "/", "developers", "/",
                  "data", "/", "lib", "/", "selectors.js">>

\* ------------------------------------------------ properties: the patterns
\* The data doc file name the convention gives a package.
ConventionalDoc(p) ==
    IF p = CoreData THEN <<"data", "-", "core", ".md">>
    ELSE <<"data", "-", "core", "-">> \o p \o <<".md">>

\* file belongs to package p: it lies under p's directory of the packages
\* root, or it is p's data doc file.
BelongsTo(file, p) ==
    \/ startsWith(file, PACKAGES_DIR \o <<sep>> \o p \o <<sep>>)
    \/ /\ ~startsWith(file, PACKAGES_DIR)
       /\ basename(file, <<>>) = ConventionalDoc(p)

\* C6: for a non-empty file list of one package p, the package pattern is p
\* itself, the data doc pattern is p's doc file name, and the glob yields p's
\* README and p's data doc file only; for an empty list both patterns are "*".
C6_SinglePackagePattern ==
    gpc \in { "patterns", "globbed" } =>
       /\ files = <<>> => (packagePattern = <<"*">> /\ docPattern = <<"*">>)
       /\ \A p \in { Foo, Bar, CoreData } :
             (files # <<>> /\ \A i \in 1..Len(files) : BelongsTo(files[i], p)) =>
                /\ packagePattern = p
                /\ docPattern = ConventionalDoc(p)
                /\ gpc = "globbed" =>
                      matched = { ReadmeOf(p), DataDocOf(ConventionalDoc(p)) }

C6_Witness ==
    /\ gpc = "globbed"
    /\ Len(files) = 2
    /\ startsWith(files[1], PACKAGES_DIR \o <<sep>> \o Foo \o <<sep>>)
    /\ files[2] = DataDocOf(ConventionalDoc(Foo))
    /\ matched = { ReadmeOf(Foo), DataDocOf(ConventionalDoc(Foo)) }

\* C7 as stated: package core corresponds to data-core-data.md and package
\* foo to data-core-foo.md, in both directions.
C7_AsStated ==
    npc = "done" =>
       /\ nameInput = [ kind |-> "package", value |-> <<"core">> ] =>
             nameOutput = <<"data", "-", "core", "-", "data", ".md">>
       /\ nameInput = [ kind |-> "doc",
                        value |-> <<"data", "-", "core", "-", "data", ".md">> ] =>
             nameOutput = <<"core">>
       /\ nameInput = [ kind |-> "package", value |-> Foo ] =>
             nameOutput = <<"data", "-", "core", "-", "foo", ".md">>
       /\ nameInput = [ kind |-> "doc",
                        value |-> <<"data", "-", "core", "-", "foo", ".md">> ] =>
             nameOutput = Foo

\* C7 (amended): package core-data corresponds to data-core.md and every
\* other package foo but core corresponds to data-core-foo.md, in both
\* directions; data-core-data.md is the doc file of package data.
C7_ConventionPairs ==
    npc = "done" =>
       /\ nameInput = [ kind |-> "package", value |-> CoreData ] =>
             nameOutput = <<"data", "-", "core", ".md">>
       /\ nameInput = [ kind |-> "doc", value |-> <<"data", "-", "core", ".md">> ] =>
             nameOutput = CoreData
       /\ \A p \in PackageNames \ { <<"core">>, CoreData } :
             /\ nameInput = [ kind |-> "package", value |-> p ] =>
                   /\ nameOutput = <<"data", "-", "core", "-">> \o p \o <<".md">>
                   /\ getDataDocumentationFilePackage(
                         basename(nameOutput, <<".md">>)) = p
             /\ nameInput = [ kind |-> "doc",
                              value |-> <<"data", "-", "core", "-">> \o p \o <<".md">> ] =>
                   /\ nameOutput = p
                   /\ getDataDocumentationFile(nameOutput) = nameInput.value

C7_Witness ==
    /\ npc = "done"
    /\ nameInput = [ kind |-> "doc",
                     value |-> <<"data", "-", "core", "-", "data", ".md">> ]
    /\ nameOutput = <<"data">>

\* ------------------------------------------- properties: the global styles
\* C10: after any sequence of setStyles calls every style key holds the value
\* of the most recent call that included it, every other key holds its
\* initial value, and a call without argument changes nothing.
C10_LastWriteWins == state = expected

====
